---- MODULE Spec2Model ----
(***************************************************************************)
(* Expense tracker: HTTP handlers -> ExpenseService -> ExpenseRepository  *)
(* -> the expenses table.                                                  *)
(*                                                                         *)
(* Representation.                                                         *)
(*   - A string is the sequence of its code points (so its length, its     *)
(*     emptiness, its digits and its collation order are computed).        *)
(*   - An amount is an integer number of thousandths of the currency unit  *)
(*     (1005 is 1.005); the column amount DECIMAL(10,2) keeps hundredths.  *)
(*   - A date is the integer yyyymmdd of a calendar day.                   *)
(*   - An instant is an integer number of half microseconds; the column    *)
(*     created_at keeps whole microseconds.                                *)
(*   - A nil pointer is <<>>, a pointer to v is <<v>>.                     *)
(***************************************************************************)
EXTENDS Integers, Sequences, FiniteSets, TLC

VARIABLES
    expenses,   \* the table: id -> [description, amount, category, date, created_at]
    id_seq,     \* last value handed out by the SERIAL sequence of expenses.id
    now,        \* last reading of the wall clock
    resp,       \* the request being answered and its response (NoResponse: none)
    issued,     \* history: the ids returned by successful creates, in order
    deleted,    \* history: the ids whose delete succeeded
    stamps,    \* history: id -> the creation timestamp its create returned
    inflight   \* client -> its request that is between two storage calls

vars == <<expenses, id_seq, now, resp, issued, deleted, stamps, inflight>>

----------------------------------------------------------------------------
(* Bounds of the model *)

MaxCreates == 2     \* inserts attempted in one behaviour
MaxRows == 101      \* largest table of the listing specification
MaxPageRows == 4    \* largest table of the paging specification
MaxClients == 2     \* requests in progress at the same time
MaxConcRows == 1    \* rows ever inserted while requests overlap

----------------------------------------------------------------------------
(* Program constants *)

DefaultLimit == 50
MaxLimit == 100
MaxDescriptionLen == 500
MaxCategoryLen == 100
StatusOK == 200
StatusCreated == 201
StatusBadRequest == 400
StatusNotFound == 404
StatusInternalServerError == 500

----------------------------------------------------------------------------
(* Text *)

Nil == <<>>
Some(v) == <<v>>
Deref(p) == p[1]

EmptyString == <<>>
Repeat(c, n) == [i \in 1..n |-> c]

IsDigit(c) == c \in 48..57
Digit(c) == c - 48

\* lexicographic order on code points
RECURSIVE StrLess(_, _)
StrLess(s, t) ==
    IF s = <<>> THEN t # <<>>
    ELSE IF t = <<>> THEN FALSE
    ELSE IF Head(s) # Head(t) THEN Head(s) < Head(t)
    ELSE StrLess(Tail(s), Tail(t))

\* decimal digits of a natural number
RECURSIVE Itoa(_)
Itoa(n) == IF n < 10 THEN <<48 + n>> ELSE Itoa(n \div 10) \o <<48 + (n % 10)>>

RECURSIVE Atoi(_)
Atoi(s) == IF s = <<>> THEN 0 ELSE 10 * Atoi(SubSeq(s, 1, Len(s) - 1)) + Digit(s[Len(s)])

\* strconv.ParseInt(s, 10, 64): an optional sign, then digits only (the
\* identifiers of the model are far below the int64 range, whose check is
\* therefore not written)
ParseInt(s) ==
    LET signed == s # <<>> /\ s[1] \in {43, 45}
        body   == IF signed THEN Tail(s) ELSE s
        ok     == body # <<>> /\ \A i \in 1..Len(body) : IsDigit(body[i])
        mag    == IF ok THEN Atoi(body) ELSE 0
        val    == IF signed /\ s[1] = 45 THEN 0 - mag ELSE mag
    IN  IF ok
        THEN [ok |-> TRUE, val |-> val]
        ELSE [ok |-> FALSE, val |-> 0]

----------------------------------------------------------------------------
(* Dates *)

IsLeap(y) == (y % 4 = 0) /\ ((y % 100 # 0) \/ (y % 400 = 0))

DaysIn(m, y) ==
    IF m = 2 THEN (IF IsLeap(y) THEN 29 ELSE 28)
    ELSE IF m \in {4, 6, 9, 11} THEN 30 ELSE 31

\* time.Parse("2006-01-02", s): four digits, '-', two digits, '-', two digits,
\* nothing after; the month in 1..12 and the day within the month
ParseDate(s) ==
    LET shape == /\ Len(s) = 10
                 /\ s[5] = 45 /\ s[8] = 45
                 /\ \A i \in {1, 2, 3, 4, 6, 7, 9, 10} : IsDigit(s[i])
        y == Atoi(SubSeq(s, 1, 4))
        m == Atoi(SubSeq(s, 6, 7))
        d == Atoi(SubSeq(s, 9, 10))
    IN  IF shape /\ m \in 1..12 /\ d >= 1 /\ d <= DaysIn(m, y)
        THEN [ok |-> TRUE, date |-> y * 10000 + m * 100 + d]
        ELSE [ok |-> FALSE, date |-> 0]

----------------------------------------------------------------------------
(* The schema: CREATE TABLE expenses *)

\* DECIMAL(10,2) rounds to hundredths, half away from zero
NumericRound(a) ==
    IF a >= 0 THEN ((a + 5) \div 10) * 10 ELSE 0 - ((((0 - a) + 5) \div 10) * 10)

\* DECIMAL(10,2) holds fewer than 10^8 units
NumericFits(a) ==
    /\ NumericRound(a) \div 1000 < 10^8
    /\ (0 - NumericRound(a)) \div 1000 < 10^8

\* TIMESTAMP WITH TIME ZONE keeps microseconds
TimestampRound(t) == ((t + 1) \div 2) * 2

\* the row the table would hold for these values, and whether it accepts it:
\* VARCHAR(500), DECIMAL(10,2) CHECK (amount > 0), VARCHAR(100)
Coerce(row) ==
    [row EXCEPT !.amount = NumericRound(@), !.created_at = TimestampRound(@)]

\* variant: the table without CHECK (amount > 0)
RowAcceptedNoCheck(row) ==
    /\ Len(row.description) <= MaxDescriptionLen
    /\ Len(row.category) <= MaxCategoryLen
    /\ NumericFits(row.amount)

RowAccepted(row) ==
    /\ Len(row.description) <= MaxDescriptionLen
    /\ Len(row.category) <= MaxCategoryLen
    /\ NumericFits(row.amount)
    /\ NumericRound(row.amount) > 0

\* a row as models.Expense
AsExpense(rows, id) ==
    [id |-> id,
     description |-> rows[id].description,
     amount |-> rows[id].amount,
     category |-> rows[id].category,
     date |-> rows[id].date,
     created_at |-> rows[id].created_at]

----------------------------------------------------------------------------
(* Errors *)

ErrNone == "nil"
ErrStorage == "storage"            \* a failed query, wrapped by the repository
ErrNotFound == "not found"         \* fmt.Errorf("... id=%d не найден")
ErrInvalidDate == "invalid date"   \* a failed time.Parse, wrapped
ErrBinding == "binding"            \* ShouldBindJSON
ErrBadId == "bad id"               \* strconv.ParseInt on the path parameter

----------------------------------------------------------------------------
(* ExpenseRepository.  `up` says whether the storage call goes through     *)
(* (FALSE: the driver returns a connection or query failure).             *)

Put(rows, id, row) ==
    [i \in (DOMAIN rows) \cup {id} |-> IF i = id THEN row ELSE rows[i]]

Remove(rows, id) == [i \in (DOMAIN rows) \ {id} |-> rows[i]]

\* variant: the identifier taken as one more than the largest stored one
NextValMaxPlusOne(rows, seq) ==
    IF DOMAIN rows = {} THEN 1
    ELSE (CHOOSE i \in DOMAIN rows : \A j \in DOMAIN rows : j <= i) + 1

\* id SERIAL PRIMARY KEY: the next value of the sequence of the column
NextVal(rows, seq) == seq + 1

\* INSERT ... RETURNING id.  The default of the id column draws the next
\* value of the sequence before the row is checked, so a rejected row uses
\* up an identifier.
RepoCreate(rows, seq, expense, t, up) ==
    LET stamped == [expense EXCEPT !.created_at = t]
        id  == NextVal(rows, seq)
        row == [description |-> expense.description,
                amount      |-> expense.amount,
                category    |-> expense.category,
                date        |-> expense.date,
                created_at  |-> t]
    IN  IF ~up
        THEN [rows |-> rows, seq |-> seq, expense |-> stamped, err |-> ErrStorage]
        ELSE IF ~RowAccepted(row)
        THEN [rows |-> rows, seq |-> id, expense |-> stamped, err |-> ErrStorage]
        ELSE [rows |-> Put(rows, id, Coerce(row)), seq |-> id,
              expense |-> [stamped EXCEPT !.id = id], err |-> ErrNone]

\* SELECT ... WHERE id = $1; sql.ErrNoRows is (nil, nil)
RepoGetByID(rows, id, up) ==
    IF ~up THEN [expense |-> Nil, err |-> ErrStorage]
    ELSE IF id \notin DOMAIN rows THEN [expense |-> Nil, err |-> ErrNone]
    ELSE [expense |-> Some(AsExpense(rows, id)), err |-> ErrNone]

\* variant: the number of affected rows is not looked at
RepoDeleteIdempotent(rows, id, up) ==
    IF ~up THEN [rows |-> rows, err |-> ErrStorage]
    ELSE [rows |-> Remove(rows, id), err |-> ErrNone]

\* DELETE FROM expenses WHERE id = $1; no row affected is an error
RepoDelete(rows, id, up) ==
    IF ~up THEN [rows |-> rows, err |-> ErrStorage]
    ELSE IF id \notin DOMAIN rows THEN [rows |-> rows, err |-> ErrNotFound]
    ELSE [rows |-> Remove(rows, id), err |-> ErrNone]

\* variant: a text field the request does not carry is written as ""
AssignZeroValues(row, req, date) ==
    [description |-> IF req.description # Nil THEN Deref(req.description) ELSE EmptyString,
     amount      |-> IF req.amount # Nil THEN Deref(req.amount) ELSE row.amount,
     category    |-> IF req.category # Nil THEN Deref(req.category) ELSE EmptyString,
     date        |-> IF req.date # Nil THEN date ELSE row.date,
     created_at  |-> row.created_at]

\* the SET list of Update: only the fields the request carries
Assign(row, req, date) ==
    [description |-> IF req.description # Nil THEN Deref(req.description) ELSE row.description,
     amount      |-> IF req.amount # Nil THEN Deref(req.amount) ELSE row.amount,
     category    |-> IF req.category # Nil THEN Deref(req.category) ELSE row.category,
     date        |-> IF req.date # Nil THEN date ELSE row.date,
     created_at  |-> row.created_at]

\* variant: the fields are written one by one as they are read, so that the
\* fields before the date are stored when the date fails to parse
RepoUpdateFieldByField(rows, id, req, up) ==
    LET parsed == IF req.date # Nil THEN ParseDate(Deref(req.date))
                  ELSE [ok |-> TRUE, date |-> 0]
        empty  == req.description = Nil /\ req.amount = Nil
                  /\ req.category = Nil /\ req.date = Nil
    IN  IF ~parsed.ok
        THEN LET before == [req EXCEPT !.date = Nil]
                 new    == Assign(rows[id], before, 0)
             IN  [rows |-> IF up /\ id \in DOMAIN rows /\ RowAccepted(new)
                           THEN Put(rows, id, Coerce(new)) ELSE rows,
                  expense |-> Nil, err |-> ErrInvalidDate]
        ELSE IF empty
        THEN [rows |-> rows] @@ RepoGetByID(rows, id, up)
        ELSE IF ~up
        THEN [rows |-> rows, expense |-> Nil, err |-> ErrStorage]
        ELSE IF id \notin DOMAIN rows
        THEN [rows |-> rows, expense |-> Nil, err |-> ErrNone]
        ELSE LET new == Assign(rows[id], req, parsed.date)
             IN  IF ~RowAccepted(new)
                 THEN [rows |-> rows, expense |-> Nil, err |-> ErrStorage]
                 ELSE LET after == Put(rows, id, Coerce(new))
                      IN  [rows |-> after, expense |-> Some(AsExpense(after, id)),
                           err |-> ErrNone]

\* variant: no early return when the SET list is empty; the statement
\* UPDATE expenses SET  WHERE id = $1 is refused by the server
RepoUpdateAlwaysQuery(rows, id, req, up) ==
    LET parsed == IF req.date # Nil THEN ParseDate(Deref(req.date))
                  ELSE [ok |-> TRUE, date |-> 0]
        empty  == req.description = Nil /\ req.amount = Nil
                  /\ req.category = Nil /\ req.date = Nil
    IN  IF ~parsed.ok
        THEN [rows |-> rows, expense |-> Nil, err |-> ErrInvalidDate]
        ELSE IF ~up \/ empty
        THEN [rows |-> rows, expense |-> Nil, err |-> ErrStorage]
        ELSE IF id \notin DOMAIN rows
        THEN [rows |-> rows, expense |-> Nil, err |-> ErrNone]
        ELSE LET new == Assign(rows[id], req, parsed.date)
             IN  IF ~RowAccepted(new)
                 THEN [rows |-> rows, expense |-> Nil, err |-> ErrStorage]
                 ELSE LET after == Put(rows, id, Coerce(new))
                      IN  [rows |-> after, expense |-> Some(AsExpense(after, id)),
                           err |-> ErrNone]

\* UPDATE expenses SET ... WHERE id = $n RETURNING ...
RepoUpdate(rows, id, req, up) ==
    LET parsed == IF req.date # Nil THEN ParseDate(Deref(req.date))
                  ELSE [ok |-> TRUE, date |-> 0]
        empty  == req.description = Nil /\ req.amount = Nil
                  /\ req.category = Nil /\ req.date = Nil
    IN  IF ~parsed.ok
        THEN [rows |-> rows, expense |-> Nil, err |-> ErrInvalidDate]
        ELSE IF empty
        THEN [rows |-> rows] @@ RepoGetByID(rows, id, up)
        ELSE IF ~up
        THEN [rows |-> rows, expense |-> Nil, err |-> ErrStorage]
        ELSE IF id \notin DOMAIN rows
        THEN [rows |-> rows, expense |-> Nil, err |-> ErrNone]
        ELSE LET new == Assign(rows[id], req, parsed.date)
             IN  IF ~RowAccepted(new)
                 THEN [rows |-> rows, expense |-> Nil, err |-> ErrStorage]
                 ELSE LET after == Put(rows, id, Coerce(new))
                      IN  [rows |-> after, expense |-> Some(AsExpense(after, id)),
                           err |-> ErrNone]

\* variant: the date bounds exclude the bound itself
MatchesExclusive(row, filter) ==
    /\ filter.category # EmptyString => row.category = filter.category
    /\ filter.date_from # EmptyString => row.date > ParseDate(filter.date_from).date
    /\ filter.date_to # EmptyString => row.date < ParseDate(filter.date_to).date

\* the WHERE clause of GetAll: the conjunction of the conditions supplied
Matches(row, filter) ==
    /\ filter.category # EmptyString => row.category = filter.category
    /\ filter.date_from # EmptyString => row.date >= ParseDate(filter.date_from).date
    /\ filter.date_to # EmptyString => row.date <= ParseDate(filter.date_to).date

\* variant: equal dates ordered by ascending identifier
OrderBeforeAscendingId(rows, i, j) ==
    \/ rows[i].date > rows[j].date
    \/ rows[i].date = rows[j].date /\ i < j

\* ORDER BY date DESC, id DESC
OrderBefore(rows, i, j) ==
    \/ rows[i].date > rows[j].date
    \/ rows[i].date = rows[j].date /\ i > j

\* the identifiers ids in that order: the k-th is the one that k - 1 of
\* them come before
Ordered(rows, ids) ==
    LET place == {<<Cardinality({j \in ids : OrderBefore(rows, j, i)}) + 1, i>> : i \in ids}
    IN  [k \in 1..Cardinality(ids) |-> (CHOOSE p \in place : p[1] = k)[2]]

\* LIMIT and OFFSET, each only if positive
Page(s, limit, offset) ==
    LET skip == IF offset > 0 THEN offset ELSE 0
        rest == SubSeq(s, skip + 1, Len(s))
    IN  IF limit > 0 /\ Len(rest) > limit THEN SubSeq(rest, 1, limit) ELSE rest

\* a date bound the server cannot read as a date fails the query
RepoGetAll(rows, filter, up) ==
    LET readable == /\ filter.date_from # EmptyString => ParseDate(filter.date_from).ok
                    /\ filter.date_to # EmptyString => ParseDate(filter.date_to).ok
        ids  == {i \in DOMAIN rows : Matches(rows[i], filter)}
        all  == Ordered(rows, ids)
        page == Page(all, filter.limit, filter.offset)
    IN  IF ~up \/ ~readable
        THEN [expenses |-> Nil, err |-> ErrStorage]
        ELSE [expenses |-> Some([k \in 1..Len(page) |-> AsExpense(rows, page[k])]),
              err |-> ErrNone]

RECURSIVE SumAmount(_, _)
SumAmount(rows, ids) ==
    IF ids = {} THEN 0
    ELSE LET i == CHOOSE i \in ids : TRUE
         IN  rows[i].amount + SumAmount(rows, ids \ {i})

\* variant: the arguments of COALESCE in the other order
CoalesceSwapped(v, d) == d

\* COALESCE(v, d): an aggregate over no rows is NULL
Coalesce(v, d) == IF v = Nil THEN d ELSE Deref(v)

\* AVG(amount): the quotient, to a thousandth of the amount unit
Avg(sum, count) == (2 * 1000 * sum + count) \div (2 * count)

\* variant: no SUM, no GROUP BY: each row overwrites the entry of its category
CategoryTotalsLastRow(rows) ==
    [c \in {rows[i].category : i \in DOMAIN rows} |->
        LET same == {i \in DOMAIN rows : rows[i].category = c}
        IN  rows[CHOOSE i \in same : \A j \in same : j <= i].amount]

\* SELECT category, COALESCE(SUM(amount), 0) ... GROUP BY category, scanned
\* into the map
CategoryTotals(rows) ==
    [c \in {rows[i].category : i \in DOMAIN rows} |->
        Coalesce(Some(SumAmount(rows, {i \in DOMAIN rows : rows[i].category = c})), 0)]

\* two queries: the aggregate one reads rows1, the grouped one reads rows2
RepoGetStats(rows1, rows2, up1, up2) ==
    LET n     == Cardinality(DOMAIN rows1)
        sum   == IF n = 0 THEN Nil ELSE Some(SumAmount(rows1, DOMAIN rows1))
        avg   == IF n = 0 THEN Nil ELSE Some(Avg(SumAmount(rows1, DOMAIN rows1), n))
        group == CategoryTotals(rows2)
    IN  IF ~up1 \/ ~up2
        THEN [stats |-> Nil, err |-> ErrStorage]
        ELSE [stats |-> Some([total_amount   |-> Coalesce(sum, 0),
                              expense_count  |-> n,
                              average_amount |-> Coalesce(avg, 0),
                              by_category    |-> group]),
              err |-> ErrNone]

RECURSIVE SortStrings(_)
SortStrings(S) ==
    IF S = {} THEN <<>>
    ELSE LET least == CHOOSE s \in S : \A t \in S \ {s} : StrLess(s, t)
         IN  <<least>> \o SortStrings(S \ {least})

RECURSIVE CategoriesById(_, _)
CategoriesById(rows, ids) ==
    IF ids = {} THEN <<>>
    ELSE LET i == CHOOSE i \in ids : \A j \in ids : i <= j
         IN  <<rows[i].category>> \o CategoriesById(rows, ids \ {i})

\* variant: no DISTINCT, no ORDER BY: one label per row, in the order of the rows
RepoGetCategoriesUnordered(rows, up) ==
    IF ~up THEN [categories |-> Nil, err |-> ErrStorage]
    ELSE [categories |-> Some(CategoriesById(rows, DOMAIN rows)), err |-> ErrNone]

\* SELECT DISTINCT category FROM expenses ORDER BY category
RepoGetCategories(rows, up) ==
    IF ~up THEN [categories |-> Nil, err |-> ErrStorage]
    ELSE [categories |-> Some(SortStrings({rows[i].category : i \in DOMAIN rows})),
          err |-> ErrNone]

----------------------------------------------------------------------------
(* ExpenseService *)

\* variant: the result of time.Parse is not looked at
SvcCreateExpenseNoDateCheck(rows, seq, req, t, up) ==
    LET parsed == ParseDate(req.date)
        expense == [id |-> 0, description |-> req.description, amount |-> req.amount,
                    category |-> req.category, date |-> parsed.date, created_at |-> 0]
        r == RepoCreate(rows, seq, expense, t, up)
    IN  IF r.err # ErrNone
        THEN [rows |-> r.rows, seq |-> r.seq, expense |-> Nil, err |-> r.err,
              stored |-> TRUE]
        ELSE [rows |-> r.rows, seq |-> r.seq, expense |-> Some(r.expense), err |-> ErrNone,
              stored |-> TRUE]

SvcCreateExpense(rows, seq, req, t, up) ==
    LET parsed == ParseDate(req.date)
        expense == [id |-> 0, description |-> req.description, amount |-> req.amount,
                    category |-> req.category, date |-> parsed.date, created_at |-> 0]
        r == RepoCreate(rows, seq, expense, t, up)
    IN  IF ~parsed.ok
        THEN [rows |-> rows, seq |-> seq, expense |-> Nil, err |-> ErrInvalidDate,
              stored |-> FALSE]
        ELSE IF r.err # ErrNone
        THEN [rows |-> r.rows, seq |-> r.seq, expense |-> Nil, err |-> r.err,
              stored |-> TRUE]
        ELSE [rows |-> r.rows, seq |-> r.seq, expense |-> Some(r.expense), err |-> ErrNone,
              stored |-> TRUE]

\* variant: an absent record is not turned into an error
SvcGetExpenseNoNilCheck(rows, id, up) == RepoGetByID(rows, id, up)

SvcGetExpense(rows, id, up) ==
    LET r == RepoGetByID(rows, id, up)
    IN  IF r.err # ErrNone THEN [expense |-> Nil, err |-> r.err]
        ELSE IF r.expense = Nil THEN [expense |-> Nil, err |-> ErrNotFound]
        ELSE r

\* variant: no upper cap
ClampLimitNoMax(limit) == IF limit <= 0 THEN DefaultLimit ELSE limit

\* the limit the service hands to the repository
ClampLimit(limit) ==
    LET defaulted == IF limit <= 0 THEN DefaultLimit ELSE limit
    IN  IF defaulted > MaxLimit THEN MaxLimit ELSE defaulted

SvcGetExpenses(rows, filter, up) ==
    LET passed == [filter EXCEPT !.limit = ClampLimit(filter.limit)]
    IN  [passed |-> passed] @@ RepoGetAll(rows, passed, up)

\* variant: no existence check before the update
SvcUpdateExpenseNoCheck(rows1, rows2, id, req, up1, up2) ==
    LET r == RepoUpdate(rows2, id, req, up2)
    IN  IF r.err = ErrNone /\ r.expense = Nil
        THEN [rows |-> r.rows, expense |-> Nil, err |-> ErrNotFound]
        ELSE r

\* variant: read-modify-write - the record the existence check has read is
\* written back whole, with the request's fields replaced
SvcUpdateExpenseWriteBack(rows1, rows2, id, req, up1, up2) ==
    LET existing == RepoGetByID(rows1, id, up1)
    IN  IF existing.err # ErrNone
        THEN [rows |-> rows2, expense |-> Nil, err |-> existing.err]
        ELSE IF existing.expense = Nil
        THEN [rows |-> rows2, expense |-> Nil, err |-> ErrNotFound]
        ELSE RepoUpdate(IF id \in DOMAIN rows2 THEN Put(rows2, id, rows1[id]) ELSE rows2,
                        id, req, up2)

\* the existence check reads rows1, the update acts on rows2
SvcUpdateExpense(rows1, rows2, id, req, up1, up2) ==
    LET existing == RepoGetByID(rows1, id, up1)
    IN  IF existing.err # ErrNone
        THEN [rows |-> rows2, expense |-> Nil, err |-> existing.err]
        ELSE IF existing.expense = Nil
        THEN [rows |-> rows2, expense |-> Nil, err |-> ErrNotFound]
        ELSE RepoUpdate(rows2, id, req, up2)

SvcDeleteExpense(rows, id, up) == RepoDelete(rows, id, up)

SvcGetStats(rows1, rows2, up1, up2) == RepoGetStats(rows1, rows2, up1, up2)

SvcGetCategories(rows, up) == RepoGetCategories(rows, up)

----------------------------------------------------------------------------
(* HTTP handlers *)

\* binding:"required,min=1,max=500" / "required,gt=0" / "required,min=1,max=100"
\* / "required"
BindCreate(req) ==
    /\ Len(req.description) >= 1 /\ Len(req.description) <= MaxDescriptionLen
    /\ req.amount # 0 /\ req.amount > 0
    /\ Len(req.category) >= 1 /\ Len(req.category) <= MaxCategoryLen
    /\ req.date # EmptyString

\* variant: omitempty skips a field that is present with its zero value
\* ("" or 0), as it skips an absent one
BindUpdateSkipsZero(req) ==
    /\ (req.description # Nil /\ Deref(req.description) # EmptyString) =>
          Len(Deref(req.description)) >= 1 /\ Len(Deref(req.description)) <= MaxDescriptionLen
    /\ (req.amount # Nil /\ Deref(req.amount) # 0) => Deref(req.amount) > 0
    /\ (req.category # Nil /\ Deref(req.category) # EmptyString) =>
          Len(Deref(req.category)) >= 1 /\ Len(Deref(req.category)) <= MaxCategoryLen

\* binding:"omitempty,..." on pointer fields: a nil pointer is skipped, a
\* field that is present is checked; the date carries no tag
BindUpdate(req) ==
    /\ req.description # Nil =>
          Len(Deref(req.description)) >= 1 /\ Len(Deref(req.description)) <= MaxDescriptionLen
    /\ req.amount # Nil => Deref(req.amount) > 0
    /\ req.category # Nil =>
          Len(Deref(req.category)) >= 1 /\ Len(Deref(req.category)) <= MaxCategoryLen

Response(op, status, err, data, arg) ==
    [op |-> op, status |-> status, success |-> (err = ErrNone), err |-> err,
     data |-> data, arg |-> arg]

HandleCreateExpense(rows, seq, req, t, up) ==
    LET r == SvcCreateExpense(rows, seq, req, t, up)
    IN  IF ~BindCreate(req)
        THEN [rows |-> rows, seq |-> seq, stored |-> FALSE,
              resp |-> Response("create", StatusBadRequest, ErrBinding, Nil, req)]
        ELSE IF r.err # ErrNone
        THEN [rows |-> r.rows, seq |-> r.seq, stored |-> r.stored,
              resp |-> Response("create", StatusBadRequest, r.err, Nil, req)]
        ELSE [rows |-> r.rows, seq |-> r.seq, stored |-> r.stored,
              resp |-> Response("create", StatusCreated, ErrNone, r.expense, req)]

\* variant: the error of strconv.ParseInt is not looked at
HandleGetExpenseAnyId(rows, idParam, up) ==
    LET id == ParseInt(idParam)
        r  == SvcGetExpense(rows, id.val, up)
        arg == [id |-> idParam]
    IN  IF r.err # ErrNone THEN Response("get", StatusNotFound, r.err, Nil, arg)
        ELSE Response("get", StatusOK, ErrNone, r.expense, arg)

HandleGetExpense(rows, idParam, up) ==
    LET id == ParseInt(idParam)
        r  == SvcGetExpense(rows, id.val, up)
        arg == [id |-> idParam]
    IN  IF ~id.ok THEN Response("get", StatusBadRequest, ErrBadId, Nil, arg)
        ELSE IF r.err # ErrNone THEN Response("get", StatusNotFound, r.err, Nil, arg)
        ELSE Response("get", StatusOK, ErrNone, r.expense, arg)

\* query holds Limit and Offset as left by strconv.Atoi (0 when absent or unreadable)
HandleGetExpenses(rows, query, up) ==
    LET r == SvcGetExpenses(rows, query, up)
        arg == [query |-> query, passed |-> r.passed]
    IN  IF r.err # ErrNone
        THEN Response("list", StatusInternalServerError, r.err, Nil, arg)
        ELSE Response("list", StatusOK, ErrNone, r.expenses, arg)

\* the existence check of the service reads rows1, the update acts on rows2
HandleUpdateExpenseAt(rows1, rows2, idParam, req, up1, up2) ==
    LET id == ParseInt(idParam)
        r  == SvcUpdateExpense(rows1, rows2, id.val, req, up1, up2)
        arg == [id |-> idParam, req |-> req]
    IN  IF ~id.ok
        THEN [rows |-> rows2, resp |-> Response("update", StatusBadRequest, ErrBadId, Nil, arg)]
        ELSE IF ~BindUpdate(req)
        THEN [rows |-> rows2, resp |-> Response("update", StatusBadRequest, ErrBinding, Nil, arg)]
        ELSE IF r.err # ErrNone
        THEN [rows |-> r.rows, resp |-> Response("update", StatusNotFound, r.err, Nil, arg)]
        ELSE [rows |-> r.rows, resp |-> Response("update", StatusOK, ErrNone, r.expense, arg)]

\* no other request between the two storage calls
HandleUpdateExpense(rows, idParam, req, up1, up2) ==
    HandleUpdateExpenseAt(rows, rows, idParam, req, up1, up2)

HandleDeleteExpense(rows, idParam, up) ==
    LET id == ParseInt(idParam)
        r  == SvcDeleteExpense(rows, id.val, up)
        arg == [id |-> idParam]
    IN  IF ~id.ok
        THEN [rows |-> rows, resp |-> Response("delete", StatusBadRequest, ErrBadId, Nil, arg)]
        ELSE IF r.err # ErrNone
        THEN [rows |-> r.rows, resp |-> Response("delete", StatusNotFound, r.err, Nil, arg)]
        ELSE [rows |-> r.rows, resp |-> Response("delete", StatusOK, ErrNone, Some("deleted"), arg)]

\* the aggregate query reads rows1, the grouped query reads rows2
HandleGetStatsAt(rows1, rows2, up1, up2) ==
    LET r == SvcGetStats(rows1, rows2, up1, up2)
    IN  IF r.err # ErrNone
        THEN Response("stats", StatusInternalServerError, r.err, Nil, Nil)
        ELSE Response("stats", StatusOK, ErrNone, r.stats, Nil)

\* no other request between the two queries
HandleGetStats(rows, up) == HandleGetStatsAt(rows, rows, up, up)

HandleGetCategories(rows, up) ==
    LET r == SvcGetCategories(rows, up)
    IN  IF r.err # ErrNone
        THEN Response("categories", StatusInternalServerError, r.err, Nil, Nil)
        ELSE Response("categories", StatusOK, ErrNone, r.categories, Nil)

----------------------------------------------------------------------------
(* Requests *)

Tea == <<116, 101, 97>>                                  \* "tea"
Bus == <<98, 117, 115>>                                  \* "bus"
Food == <<70, 111, 111, 100>>                            \* "Food"
Fun == <<70, 117, 110>>                                  \* "Fun"
Day15 == <<50, 48, 50, 52, 45, 48, 49, 45, 49, 53>>      \* "2024-01-15"
Day16 == <<50, 48, 50, 52, 45, 48, 49, 45, 49, 54>>      \* "2024-01-16"
Feb30 == <<50, 48, 50, 52, 45, 48, 50, 45, 51, 48>>      \* "2024-02-30"
NotADate == <<110, 111, 116, 45, 97, 45, 100, 97, 116, 101>>   \* "not-a-date"
Abc == <<97, 98, 99>>                                    \* "abc"
LongDescription == Repeat(120, MaxDescriptionLen + 1)
LongCategory == Repeat(120, MaxCategoryLen + 1)

BaseCreate == [description |-> Tea, amount |-> 1005, category |-> Food, date |-> Day15]

\* requests the table accepts, requests it rejects, and requests with one
\* field the handler or the service rejects
GoodCreates ==
    [description : {Tea}, amount : {1005, 2000}, category : {Food, Fun}, date : {Day15, Day16}]

BadCreates ==
    {[BaseCreate EXCEPT !.description = d] : d \in {EmptyString, LongDescription}}
    \cup {[BaseCreate EXCEPT !.amount = a] : a \in {0, 0 - 1000, 4}}
    \cup {[BaseCreate EXCEPT !.category = c] : c \in {EmptyString, LongCategory}}
    \cup {[BaseCreate EXCEPT !.date = d] : d \in {EmptyString, NotADate, Feb30}}

CreateRequests == GoodCreates \cup BadCreates

NoUpdate == [description |-> Nil, amount |-> Nil, category |-> Nil, date |-> Nil]

GoodUpdates ==
    [description : {Nil, Some(Bus)}, amount : {Nil, Some(2000)},
     category : {Nil, Some(Fun)}, date : {Nil, Some(Day16)}]

BadUpdates ==
    {[NoUpdate EXCEPT !.description = Some(d)] : d \in {EmptyString, LongDescription}}
    \cup {[NoUpdate EXCEPT !.amount = Some(a)] : a \in {0, 0 - 1000, 4}}
    \cup {[NoUpdate EXCEPT !.category = Some(c)] : c \in {EmptyString, LongCategory}}
    \cup {[NoUpdate EXCEPT !.date = Some(d)] : d \in {EmptyString, NotADate}}
    \cup {[NoUpdate EXCEPT !.date = Some(Feb30), !.description = Some(Bus)]}
    \cup {[NoUpdate EXCEPT !.date = Some(NotADate), !.amount = Some(2000)],
          [NoUpdate EXCEPT !.date = Some(NotADate), !.category = Some(Fun)]}

UpdateRequests == GoodUpdates \cup BadUpdates

IdParams == {Itoa(i) : i \in 1..(MaxCreates + 1)} \cup {Abc}

NoFilter ==
    [category |-> EmptyString, date_from |-> EmptyString, date_to |-> EmptyString,
     limit |-> 0, offset |-> 0]

Queries ==
    {[NoFilter EXCEPT !.category = c, !.limit = l] : c \in {EmptyString, Food}, l \in {0, 1}}

----------------------------------------------------------------------------
(* The server: one request at a time against a storage that answers.  A   *)
(* handler runs when no request is being answered, and leaves its request *)
(* and response in resp until the response is written out.                *)

EmptyTable == [i \in {} |-> 0]

NoResponse == Response("none", 0, ErrNone, Nil, Nil)

Idle == resp = NoResponse

Clients == 1..MaxClients

\* a client with no request between two storage calls
NoRequest == [op |-> "none", id |-> EmptyString, req |-> NoUpdate, rows1 |-> EmptyTable]

NoRequests == [c \in Clients |-> NoRequest]

Init ==
    /\ expenses = EmptyTable
    /\ id_seq = 0
    /\ now = 0
    /\ resp = NoResponse
    /\ issued = <<>>
    /\ deleted = {}
    /\ stamps = EmptyTable
    /\ inflight = NoRequests

\* POST /api/expenses, while fewer than max rows were ever inserted
CreateExpenseUpTo(requests, max) ==
    \E req \in requests :
        LET t   == now + 1      \* time.Now()
            out == HandleCreateExpense(expenses, id_seq, req, t, TRUE)
        IN  /\ Idle
            /\ out.stored => id_seq < max
            /\ expenses' = out.rows
            /\ id_seq' = out.seq
            /\ now' = IF out.stored THEN t ELSE now
            /\ resp' = out.resp
            /\ issued' = IF out.resp.status = StatusCreated
                         THEN Append(issued, Deref(out.resp.data).id)
                         ELSE issued
            /\ stamps' = IF out.resp.status = StatusCreated
                          THEN Put(stamps, Deref(out.resp.data).id,
                                   Deref(out.resp.data).created_at)
                          ELSE stamps
            /\ UNCHANGED <<deleted, inflight>>

CreateExpenseOf(requests) == CreateExpenseUpTo(requests, MaxCreates)

CreateExpense == CreateExpenseOf(CreateRequests)

\* GET /api/expenses/:id
GetExpense ==
    \E idParam \in IdParams :
        /\ Idle
        /\ resp' = HandleGetExpense(expenses, idParam, TRUE)
        /\ UNCHANGED <<expenses, id_seq, now, issued, deleted, stamps, inflight>>

\* GET /api/expenses
GetExpensesOf(queries) ==
    \E query \in queries :
        /\ Idle
        /\ resp' = HandleGetExpenses(expenses, query, TRUE)
        /\ UNCHANGED <<expenses, id_seq, now, issued, deleted, stamps, inflight>>

GetExpenses == GetExpensesOf(Queries)

\* PUT /api/expenses/:id
UpdateExpense ==
    \E idParam \in IdParams, req \in UpdateRequests :
        LET out == HandleUpdateExpense(expenses, idParam, req, TRUE, TRUE)
        IN  /\ Idle
            /\ expenses' = out.rows
            /\ resp' = out.resp
            /\ UNCHANGED <<id_seq, now, issued, deleted, stamps, inflight>>

\* DELETE /api/expenses/:id
DeleteExpense ==
    \E idParam \in IdParams :
        LET out == HandleDeleteExpense(expenses, idParam, TRUE)
        IN  /\ Idle
            /\ expenses' = out.rows
            /\ resp' = out.resp
            /\ deleted' = IF out.resp.status = StatusOK
                          THEN deleted \cup {ParseInt(idParam).val}
                          ELSE deleted
            /\ UNCHANGED <<id_seq, now, issued, stamps, inflight>>

\* GET /api/stats
GetStats ==
    /\ Idle
    /\ resp' = HandleGetStats(expenses, TRUE)
    /\ UNCHANGED <<expenses, id_seq, now, issued, deleted, stamps, inflight>>

\* GET /api/categories
GetCategories ==
    /\ Idle
    /\ resp' = HandleGetCategories(expenses, TRUE)
    /\ UNCHANGED <<expenses, id_seq, now, issued, deleted, stamps, inflight>>

\* c.JSON has written the response: the request is over
Finish ==
    /\ ~Idle
    /\ resp' = NoResponse
    /\ UNCHANGED <<expenses, id_seq, now, issued, deleted, stamps, inflight>>

Next ==
    \/ Finish
    \/ CreateExpense
    \/ GetExpense
    \/ GetExpenses
    \/ UpdateExpense
    \/ DeleteExpense
    \/ GetStats
    \/ GetCategories

Spec == Init /\ [][Next]_vars

----------------------------------------------------------------------------
(* Listing over a table of any content: creates that differ in category   *)
(* and date, deletes, and every combination of the filter conditions.     *)

ListCreates ==
    [description : {Tea}, amount : {1005}, category : {Food, Fun}, date : {Day15, Day16}]

ListQueries ==
    [category : {EmptyString, Food, Fun},
     date_from : {EmptyString, Day15, Day16, NotADate},
     date_to : {EmptyString, Day15, Day16},
     limit : {0, 1},
     offset : {0, 1}]

CreateListed == CreateExpenseOf(ListCreates)

GetExpensesFiltered == GetExpensesOf(ListQueries)

NextList ==
    \/ Finish
    \/ CreateListed
    \/ DeleteExpense
    \/ GetExpensesFiltered

SpecList == Init /\ [][NextList]_vars

----------------------------------------------------------------------------
(* Listing over a large table: the state after n creates of the same      *)
(* request, for every n up to MaxRows, and every kind of requested limit. *)

BulkRow(i) ==
    Coerce([description |-> BaseCreate.description,
            amount      |-> BaseCreate.amount,
            category    |-> BaseCreate.category,
            date        |-> ParseDate(BaseCreate.date).date,
            created_at  |-> i])

InitBulk ==
    \E n \in 0..MaxRows :
        /\ expenses = [i \in 1..n |-> BulkRow(i)]
        /\ id_seq = n
        /\ now = n
        /\ resp = NoResponse
        /\ issued = [i \in 1..n |-> i]
        /\ deleted = {}
        /\ stamps = [i \in 1..n |-> i]
        /\ inflight = NoRequests

BulkQueries ==
    {[NoFilter EXCEPT !.limit = l] :
        l \in {0 - 5, 0, 1, 2, DefaultLimit, DefaultLimit + 1, MaxLimit, MaxLimit + 1, 5 * MaxLimit}}

GetExpensesBulk == GetExpensesOf(BulkQueries)

NextBulk ==
    \/ Finish
    \/ GetExpensesBulk

SpecBulk == InitBulk /\ [][NextBulk]_vars

----------------------------------------------------------------------------
(* Identifiers *)

Range(f) == {f[i] : i \in DOMAIN f}

\* the identifier a path parameter names
IdOf(idParam) == ParseInt(idParam).val

\* C1: the identifiers returned by successful creates are pairwise different
\* and each is greater than every one returned before it, whatever was
\* deleted or updated in between; the identifier in a create response is the
\* latest of them and is the key of the new record.
C1_IdsStrictlyIncreasing ==
    /\ \A i, j \in 1..Len(issued) : i < j => issued[i] < issued[j]
    /\ (resp.op = "create" /\ resp.status = StatusCreated) =>
          /\ issued # <<>>
          /\ Deref(resp.data).id = issued[Len(issued)]
          /\ Deref(resp.data).id \in DOMAIN expenses
          /\ Deref(resp.data).id \notin deleted

\* a create answered after the record created before it was deleted
C1_Witness ==
    /\ resp.op = "create" /\ resp.status = StatusCreated
    /\ Len(issued) = 2
    /\ issued[1] \in deleted

\* C2: an update of a stored expense leaves every field its request does not
\* carry (description, amount, category, date) as a GetByID before the update
\* showed it, in a GetByID after the update; the identifier, the creation
\* timestamp and every other record are left alone as well.
C2_UpdateFrame ==
    [][(resp'.op = "update" /\ ParseInt(resp'.arg.id).ok
          /\ IdOf(resp'.arg.id) \in DOMAIN expenses) =>
        LET id     == IdOf(resp'.arg.id)
            req    == resp'.arg.req
            was    == RepoGetByID(expenses, id, TRUE)
            got    == RepoGetByID(expenses', id, TRUE)
        IN  /\ got.err = ErrNone /\ got.expense # Nil
            /\ req.description = Nil =>
                  Deref(got.expense).description = Deref(was.expense).description
            /\ req.amount = Nil => Deref(got.expense).amount = Deref(was.expense).amount
            /\ req.category = Nil => Deref(got.expense).category = Deref(was.expense).category
            /\ req.date = Nil => Deref(got.expense).date = Deref(was.expense).date
            /\ Deref(got.expense).id = id
            /\ Deref(got.expense).created_at = Deref(was.expense).created_at
            /\ DOMAIN expenses' = DOMAIN expenses
            /\ \A other \in DOMAIN expenses \ {id} : expenses'[other] = expenses[other]
      ]_vars

\* an update that carried only a description, answered with the new
\* description and the old amount, category and date
C2_Witness ==
    /\ resp.op = "update" /\ resp.status = StatusOK /\ resp.data # Nil
    /\ resp.arg.req = [NoUpdate EXCEPT !.description = Some(Bus)]
    /\ Deref(resp.data).description = Bus
    /\ Deref(resp.data).amount = NumericRound(1005)
    /\ Deref(resp.data).category = Food
    /\ Deref(resp.data).date = ParseDate(Day15).date
    /\ expenses[IdOf(resp.arg.id)].category = Food

\* C3: GetExpense(id) fails with not-found when id was never returned by a
\* create or its delete has succeeded, and succeeds with the stored record
\* when id was created and not deleted; no deleted id is stored again.
C3_GetExpenseNotFound ==
    /\ deleted \cap DOMAIN expenses = {}
    /\ (resp.op = "get" /\ ParseInt(resp.arg.id).ok) =>
          LET id == IdOf(resp.arg.id)
          IN  IF id \in Range(issued) \ deleted
              THEN /\ resp.status = StatusOK /\ resp.success
                   /\ resp.data # Nil
                   /\ Deref(resp.data).id = id
                   /\ id \in DOMAIN expenses
                   /\ \A f \in {"description", "amount", "category", "date", "created_at"} :
                         Deref(resp.data)[f] = expenses[id][f]
              ELSE /\ resp.status = StatusNotFound /\ ~resp.success
                   /\ resp.err = ErrNotFound
                   /\ resp.data = Nil

\* a get of an id that was created and then deleted
C3_Witness ==
    /\ resp.op = "get" /\ resp.status = StatusNotFound
    /\ ParseInt(resp.arg.id).ok
    /\ IdOf(resp.arg.id) \in deleted
    /\ IdOf(resp.arg.id) \in Range(issued)

\* C4: a delete of a stored id succeeds and removes that record and no other;
\* a delete of an id that is not stored - never created, or deleted before -
\* fails with not-found and leaves the table as it was.
C4_DeleteOnce ==
    [][(resp'.op = "delete" /\ ParseInt(resp'.arg.id).ok) =>
        LET id == IdOf(resp'.arg.id)
        IN  IF id \in DOMAIN expenses
            THEN /\ resp'.status = StatusOK /\ resp'.success
                 /\ DOMAIN expenses' = DOMAIN expenses \ {id}
                 /\ \A other \in DOMAIN expenses' : expenses'[other] = expenses[other]
                 /\ id \notin deleted
            ELSE /\ resp'.status = StatusNotFound /\ ~resp'.success
                 /\ resp'.err = ErrNotFound
                 /\ expenses' = expenses
                 /\ (id \in Range(issued) => id \in deleted)
      ]_vars

\* a second delete of the same id, answered not-found
C4_Witness ==
    /\ resp.op = "delete" /\ resp.status = StatusNotFound
    /\ ParseInt(resp.arg.id).ok
    /\ IdOf(resp.arg.id) \in deleted
    /\ DOMAIN expenses # {}

\* the create requests the claim calls invalid
InvalidCreate(req) ==
    \/ ~ParseDate(req.date).ok
    \/ req.description = EmptyString
    \/ req.amount <= 0
    \/ req.category = EmptyString

\* C5: a create request with an unparseable date, an empty description, an
\* amount not above 0 or an empty category is answered 400 without success,
\* and neither the stored expenses nor the next identifier change.
C5_InvalidCreateNoPersistence ==
    [][(resp'.op = "create" /\ InvalidCreate(resp'.arg)) =>
        /\ resp'.status = StatusBadRequest /\ ~resp'.success
        /\ resp'.err \in {ErrBinding, ErrInvalidDate}
        /\ resp'.data = Nil
        /\ expenses' = expenses
        /\ id_seq' = id_seq
        /\ issued' = issued
      ]_vars

\* a create with the date "not-a-date", refused, with a record already stored
C5_Witness ==
    /\ resp.op = "create" /\ resp.status = StatusBadRequest
    /\ resp.arg.date = NotADate
    /\ resp.err = ErrInvalidDate
    /\ DOMAIN expenses # {}

----------------------------------------------------------------------------
(* Listing *)

\* C6: the limit handed to the repository is always in 1..100, and a list
\* response holds at most 50 records for a requested limit of 0 or less, at
\* most 100 for a requested limit above 100, and at most the requested limit
\* for one in 1..100.
C6_LimitClamped ==
    resp.op = "list" =>
        LET asked  == resp.arg.query.limit
            passed == resp.arg.passed.limit
            n      == Len(Deref(resp.data))
        IN  /\ passed >= 1 /\ passed <= 100
            /\ resp.status = StatusOK =>
                  /\ asked <= 0 => n <= 50
                  /\ asked > 100 => n <= 100
                  /\ (asked >= 1 /\ asked <= 100) => n <= asked

\* a list with limit 500 over 101 stored records, answered with 100 of them
C6_Witness ==
    /\ resp.op = "list" /\ resp.status = StatusOK
    /\ resp.arg.query.limit = 500
    /\ Cardinality(DOMAIN expenses) = 101
    /\ Len(Deref(resp.data)) = 100

\* a stored row satisfies the conditions a query supplies
Satisfies(row, query) ==
    /\ query.category = EmptyString \/ row.category = query.category
    /\ query.date_from = EmptyString \/ ParseDate(query.date_from).date <= row.date
    /\ query.date_to = EmptyString \/ row.date <= ParseDate(query.date_to).date

\* C7: a list response holds stored expenses only, each as it is stored and
\* at most once, every one of them satisfying all the conditions the query
\* supplies (category equal; date_from <= date <= date_to); and with offset 0
\* and no more matching records than the limit handed to the repository, it
\* holds every stored expense that satisfies them.
C7_ListFilter ==
    (resp.op = "list" /\ resp.status = StatusOK) =>
        LET query    == resp.arg.query
            list     == Deref(resp.data)
            returned == {list[k].id : k \in 1..Len(list)}
            matching == {i \in DOMAIN expenses : Satisfies(expenses[i], query)}
        IN  /\ returned \subseteq matching
            /\ Cardinality(returned) = Len(list)
            /\ \A k \in 1..Len(list) :
                  \A f \in {"description", "amount", "category", "date", "created_at"} :
                      list[k][f] = expenses[list[k].id][f]
            /\ (query.offset <= 0 /\ Cardinality(matching) <= resp.arg.passed.limit) =>
                  returned = matching

\* a list by category and lower date bound that returns the one record on
\* the bound and leaves out the other stored record
C7_Witness ==
    /\ resp.op = "list" /\ resp.status = StatusOK
    /\ resp.arg.query.category = Food
    /\ resp.arg.query.date_from = Day16
    /\ resp.arg.query.offset = 0
    /\ Cardinality(DOMAIN expenses) = 2
    /\ Len(Deref(resp.data)) = 1
    /\ Deref(resp.data)[1].date = ParseDate(Day16).date

----------------------------------------------------------------------------
(* Statistics and categories *)

\* the sum of the amounts stored under the identifiers 1..n in the
\* categories cats
RECURSIVE StoredTotal(_, _)
StoredTotal(n, cats) ==
    IF n = 0 THEN 0
    ELSE (IF n \in DOMAIN expenses /\ expenses[n].category \in cats
          THEN expenses[n].amount ELSE 0)
         + StoredTotal(n - 1, cats)

StoredCategories == {expenses[i].category : i \in DOMAIN expenses}

\* C8: a stats response has count = the number of stored expenses, total =
\* the sum of their amounts, and average = total / count (to the thousandth
\* of the amount unit the average is kept in); with nothing stored all three
\* are 0.
C8_StatsTotals ==
    resp.op = "stats" =>
        /\ resp.status = StatusOK /\ resp.data # Nil
        /\ LET stats == Deref(resp.data)
               count == Cardinality(DOMAIN expenses)
               total == StoredTotal(id_seq, StoredCategories)
               diff  == stats.average_amount * count - 1000 * total
           IN  /\ stats.expense_count = count
               /\ stats.total_amount = total
               /\ count = 0 => (stats.total_amount = 0 /\ stats.average_amount = 0)
               /\ count > 0 => (2 * diff <= count /\ 2 * (0 - diff) <= count)

\* stats over one remaining record after a delete
C8_Witness ==
    /\ resp.op = "stats" /\ resp.status = StatusOK
    /\ deleted # {}
    /\ Deref(resp.data).expense_count = 1
    /\ Deref(resp.data).total_amount = 2000
    /\ Deref(resp.data).average_amount = 2000 * 1000

\* C9: the per-category map of a stats response has exactly the categories
\* of the stored expenses as keys, each with the sum of the amounts stored
\* under it; a category no stored expense has is not a key.
C9_StatsByCategory ==
    resp.op = "stats" =>
        /\ resp.status = StatusOK /\ resp.data # Nil
        /\ LET by == Deref(resp.data).by_category
           IN  /\ DOMAIN by = StoredCategories
               /\ \A c \in DOMAIN by : by[c] = StoredTotal(id_seq, {c})

\* stats after the only Food expense was re-categorised by an update or
\* deleted: two were created, what is left is under Fun alone
C9_Witness ==
    /\ resp.op = "stats" /\ resp.status = StatusOK
    /\ Len(issued) = 2
    /\ DOMAIN expenses # {}
    /\ DOMAIN Deref(resp.data).by_category = {Fun}
    /\ Deref(resp.data).by_category[Fun] = NumericRound(1005) + 2000

\* C10: a categories response lists the category labels of the stored
\* expenses, each once, in ascending order; it is empty when nothing is
\* stored.
C10_CategoriesSorted ==
    resp.op = "categories" =>
        /\ resp.status = StatusOK /\ resp.data # Nil
        /\ LET list == Deref(resp.data)
           IN  /\ {list[k] : k \in 1..Len(list)} = StoredCategories
               /\ \A k \in 1..(Len(list) - 1) : StrLess(list[k], list[k + 1])
               /\ DOMAIN expenses = {} => list = <<>>

\* categories answered as Food, Fun although Fun is stored under the smaller
\* identifier
C10_Witness ==
    /\ resp.op = "categories" /\ resp.status = StatusOK
    /\ Deref(resp.data) = <<Food, Fun>>
    /\ DOMAIN expenses = {1, 2}
    /\ expenses[1].category = Fun
    /\ expenses[2].category = Food

----------------------------------------------------------------------------
(* Round trip *)

\* C11: after a successful create, a GetExpense with the identifier the
\* create returned, run against the table as the create left it, answers with
\* a record whose description, amount, category and date are those of the
\* request and whose id and creation timestamp are those the create returned.
C11_RoundTrip ==
    (resp.op = "create" /\ resp.status = StatusCreated) =>
        LET req  == resp.arg
            made == Deref(resp.data)
            got  == HandleGetExpense(expenses, Itoa(made.id), TRUE)
        IN  /\ got.status = StatusOK /\ got.data # Nil
            /\ Deref(got.data).description = req.description
            /\ Deref(got.data).amount = req.amount
            /\ Deref(got.data).category = req.category
            /\ Deref(got.data).date = ParseDate(req.date).date
            /\ Deref(got.data).id = made.id
            /\ Deref(got.data).created_at = made.created_at

----------------------------------------------------------------------------
(* Update *)

\* the identifiers a request can name
Ids == 1..(MaxCreates + 1)

\* C12: UpdateExpense on an identifier under which nothing is stored fails
\* with not-found whatever the request holds - no field, a malformed date, a
\* field the handler would reject - and leaves the table as it was; through
\* the handler, every such request that passes binding is answered with that
\* error and the table is unchanged.
C12_UpdateAbsentNotFound ==
    /\ [](\A id \in Ids \ DOMAIN expenses, req \in UpdateRequests :
            LET r == SvcUpdateExpense(expenses, expenses, id, req, TRUE, TRUE)
            IN  r.err = ErrNotFound /\ r.expense = Nil /\ r.rows = expenses)
    /\ [][(resp'.op = "update" /\ ParseInt(resp'.arg.id).ok
             /\ BindUpdate(resp'.arg.req)
             /\ IdOf(resp'.arg.id) \notin DOMAIN expenses) =>
            /\ resp'.err = ErrNotFound
            /\ resp'.success = FALSE /\ resp'.data = Nil
            /\ expenses' = expenses
         ]_vars

\* an update with a malformed date, of an identifier that is not stored while
\* another one is, answered with not-found
C12_Witness ==
    /\ resp.op = "update" /\ resp.err = ErrNotFound
    /\ resp.arg.req = [NoUpdate EXCEPT !.date = Some(NotADate)]
    /\ DOMAIN expenses # {}
    /\ IdOf(resp.arg.id) \in Ids \ DOMAIN expenses

\* C13: every stored expense has an amount greater than 0, whatever creates
\* and updates were requested, those with amount 0, a negative amount or an
\* amount the column rounds to 0 included.
C13_AmountPositive ==
    \A id \in DOMAIN expenses : expenses[id].amount > 0

\* an update of a stored expense that carried a negative amount, refused
C13_Witness ==
    /\ resp.op = "update"
    /\ resp.arg.req = [NoUpdate EXCEPT !.amount = Some(0 - 1000)]
    /\ ParseInt(resp.arg.id).ok
    /\ IdOf(resp.arg.id) \in DOMAIN expenses
    /\ resp.status = StatusBadRequest

----------------------------------------------------------------------------
(* The server against a storage that may fail: each storage call of a     *)
(* request either goes through or comes back with a connection or query   *)
(* failure.                                                               *)

FaultCreates == {BaseCreate, [BaseCreate EXCEPT !.amount = 2000, !.category = Fun]}

FaultUpdates == {NoUpdate, [NoUpdate EXCEPT !.description = Some(Bus)]}

\* POST /api/expenses; the clock is read before the insert is sent
CreateExpenseFaulty ==
    \E req \in FaultCreates, up \in BOOLEAN :
        LET t   == now + 1
            out == HandleCreateExpense(expenses, id_seq, req, t, up)
        IN  /\ Idle
            /\ out.stored => now < MaxCreates
            /\ expenses' = out.rows
            /\ id_seq' = out.seq
            /\ now' = IF out.stored THEN t ELSE now
            /\ resp' = out.resp
            /\ issued' = IF out.resp.status = StatusCreated
                         THEN Append(issued, Deref(out.resp.data).id)
                         ELSE issued
            /\ stamps' = IF out.resp.status = StatusCreated
                         THEN Put(stamps, Deref(out.resp.data).id,
                                  Deref(out.resp.data).created_at)
                         ELSE stamps
            /\ UNCHANGED <<deleted, inflight>>

\* GET /api/expenses/:id
GetExpenseFaulty ==
    \E idParam \in IdParams, up \in BOOLEAN :
        /\ Idle
        /\ resp' = HandleGetExpense(expenses, idParam, up)
        /\ UNCHANGED <<expenses, id_seq, now, issued, deleted, stamps, inflight>>

\* GET /api/expenses
GetExpensesFaulty ==
    \E up \in BOOLEAN :
        /\ Idle
        /\ resp' = HandleGetExpenses(expenses, NoFilter, up)
        /\ UNCHANGED <<expenses, id_seq, now, issued, deleted, stamps, inflight>>

\* PUT /api/expenses/:id: the existence check and the update are two calls
UpdateExpenseFaulty ==
    \E idParam \in IdParams, req \in FaultUpdates, up1 \in BOOLEAN, up2 \in BOOLEAN :
        LET out == HandleUpdateExpense(expenses, idParam, req, up1, up2)
        IN  /\ Idle
            /\ expenses' = out.rows
            /\ resp' = out.resp
            /\ UNCHANGED <<id_seq, now, issued, deleted, stamps, inflight>>

\* DELETE /api/expenses/:id
DeleteExpenseFaulty ==
    \E idParam \in IdParams, up \in BOOLEAN :
        LET out == HandleDeleteExpense(expenses, idParam, up)
        IN  /\ Idle
            /\ expenses' = out.rows
            /\ resp' = out.resp
            /\ deleted' = IF out.resp.status = StatusOK
                          THEN deleted \cup {ParseInt(idParam).val}
                          ELSE deleted
            /\ UNCHANGED <<id_seq, now, issued, stamps, inflight>>

\* GET /api/stats
GetStatsFaulty ==
    \E up \in BOOLEAN :
        /\ Idle
        /\ resp' = HandleGetStats(expenses, up)
        /\ UNCHANGED <<expenses, id_seq, now, issued, deleted, stamps, inflight>>

\* GET /api/categories
GetCategoriesFaulty ==
    \E up \in BOOLEAN :
        /\ Idle
        /\ resp' = HandleGetCategories(expenses, up)
        /\ UNCHANGED <<expenses, id_seq, now, issued, deleted, stamps, inflight>>

NextFault ==
    \/ Finish
    \/ CreateExpenseFaulty
    \/ GetExpenseFaulty
    \/ GetExpensesFaulty
    \/ UpdateExpenseFaulty
    \/ DeleteExpenseFaulty
    \/ GetStatsFaulty
    \/ GetCategoriesFaulty

SpecFault == Init /\ [][NextFault]_vars

\* C14: on every endpoint, a request whose storage call failed is answered
\* with status 500 and success false - not with the 404 of a missing record
\* or the 400 of a rejected input.
C14_StorageErrorIs500 ==
    resp.err = ErrStorage =>
        /\ resp.status = StatusInternalServerError
        /\ resp.success = FALSE

----------------------------------------------------------------------------
(* Dates, ordering, validation of updates *)

\* C15: a create whose date is not a calendar day written YYYY-MM-DD, and an
\* update of a stored expense whose request carries such a date, are both
\* answered with status 400.
C15_MalformedDateIs400 ==
    /\ (resp.op = "create" /\ ~ParseDate(resp.arg.date).ok) =>
          resp.status = StatusBadRequest
    /\ (resp.op = "update" /\ ParseInt(resp.arg.id).ok
          /\ IdOf(resp.arg.id) \in DOMAIN expenses
          /\ resp.arg.req.date # Nil
          /\ ~ParseDate(Deref(resp.arg.req.date)).ok) =>
          resp.status = StatusBadRequest

----------------------------------------------------------------------------
(* Paging.  The tables: the state after n creates, for every n up to      *)
(* MaxPageRows and every choice of the date and the category of each, and *)
(* the state after MaxRows creates of alternating dates and categories.   *)
(* The requests: every limit and offset, small and around the cap.        *)

PageRow(date, category, i) ==
    Coerce([description |-> BaseCreate.description,
            amount      |-> BaseCreate.amount,
            category    |-> category,
            date        |-> ParseDate(date).date,
            created_at  |-> i])

SmallTables ==
    UNION {{[i \in 1..n |-> PageRow(dates[i], categories[i], i)] :
                dates \in [1..n -> {Day15, Day16}], categories \in [1..n -> {Food, Fun}]} :
           n \in 0..MaxPageRows}

LargeTable ==
    [i \in 1..MaxRows |->
        PageRow(IF i % 2 = 0 THEN Day15 ELSE Day16, IF i % 3 = 0 THEN Fun ELSE Food, i)]

InitPage ==
    \E rows \in SmallTables \cup {LargeTable} :
        LET n == Cardinality(DOMAIN rows)
        IN  /\ expenses = rows
            /\ id_seq = n
            /\ now = n
            /\ resp = NoResponse
            /\ issued = [i \in 1..n |-> i]
            /\ deleted = {}
            /\ stamps = [i \in 1..n |-> i]
            /\ inflight = NoRequests

PageQueries ==
    [category : {EmptyString, Food},
     date_from : {EmptyString},
     date_to : {EmptyString},
     limit : {0, 2, 3, MaxLimit, MaxLimit + 1},
     offset : {0 - 1, 0, 2, 3, MaxLimit}]

GetExpensesPaged == GetExpensesOf(PageQueries)

NextPage ==
    \/ Finish
    \/ GetExpensesPaged

SpecPage == InitPage /\ [][NextPage]_vars

\* the list answered to query with its offset replaced
PageAt(rows, query, offset) ==
    Deref(HandleGetExpenses(rows, [query EXCEPT !.offset = offset], TRUE).data)

\* the pages at offsets k * step, (k + 1) * step, ... up to the first empty
\* one, one after the other
RECURSIVE ConcatPages(_, _, _, _)
ConcatPages(rows, query, step, k) ==
    LET page == PageAt(rows, query, k * step)
    IN  IF page = <<>> THEN <<>>
        ELSE page \o ConcatPages(rows, query, step, k + 1)

\* all the records of rows that match query, as the storage orders them
FullList(rows, query) ==
    Deref(RepoGetAll(rows, [query EXCEPT !.limit = 0, !.offset = 0], TRUE).expenses)

IdsOf(page) == {page[k].id : k \in 1..Len(page)}

\* C16: for the table and the filter of a list response, with L the limit in
\* force (the requested one from 1 to 100, 50 for 0 or less, 100 above 100):
\* the matching records are listed in descending order of date and, among
\* equal dates, of identifier; the pages at offsets 0, L, 2L, ... put one
\* after the other are the list of all matching records, and no record is in
\* two of them; the answer to an offset of 0 or less is the page at offset 0.
C16_OrderedPages ==
    (resp.op = "list" /\ resp.status = StatusOK) =>
        LET query == resp.arg.query
            L     == resp.arg.passed.limit
            match == {i \in DOMAIN expenses : Satisfies(expenses[i], query)}
            n     == Cardinality(match)
            full  == FullList(expenses, query)
            tiled == ConcatPages(expenses, query, L, 0)
        IN  /\ Len(full) = n /\ IdsOf(full) = match
            /\ \A i, j \in 1..n : i < j =>
                  \/ full[i].date > full[j].date
                  \/ full[i].date = full[j].date /\ full[i].id > full[j].id
            /\ (query.limit >= 1 /\ query.limit <= MaxLimit) => L = query.limit
            /\ tiled = full
            /\ Cardinality(IdsOf(tiled)) = Len(tiled)
            /\ query.offset <= 0 => Deref(resp.data) = PageAt(expenses, query, 0)

\* the second page of two records of a table that holds both dates, made of
\* two records of the same date
C16_Witness ==
    /\ resp.op = "list" /\ resp.status = StatusOK
    /\ resp.arg.query.limit = 2 /\ resp.arg.query.offset = 2
    /\ resp.arg.query.category = EmptyString
    /\ {expenses[i].date : i \in DOMAIN expenses} = {ParseDate(Day15).date, ParseDate(Day16).date}
    /\ Len(Deref(resp.data)) = 2
    /\ Deref(resp.data)[1].date = Deref(resp.data)[2].date
    /\ Deref(resp.data)[1].id > Deref(resp.data)[2].id

\* C16 as first stated: for every requested limit L of 1 or more, the pages
\* requested with limit L at offsets 0, L, 2L, ... put one after the other
\* are the list of all matching records.
C16_PagesOfRequestedLimit ==
    (resp.op = "list" /\ resp.status = StatusOK /\ resp.arg.query.limit >= 1) =>
        ConcatPages(expenses, resp.arg.query, resp.arg.query.limit, 0)
            = FullList(expenses, resp.arg.query)

\* C17: an update of a stored expense whose request carries no field is
\* answered with success and with the record as it is stored, and changes
\* nothing in the table.
C17_EmptyUpdateNoOp ==
    [][(resp'.op = "update" /\ ParseInt(resp'.arg.id).ok
          /\ IdOf(resp'.arg.id) \in DOMAIN expenses
          /\ resp'.arg.req = NoUpdate) =>
        /\ resp'.status = StatusOK /\ resp'.success = TRUE
        /\ resp'.data = Some(AsExpense(expenses, IdOf(resp'.arg.id)))
        /\ resp'.data = RepoGetByID(expenses', IdOf(resp'.arg.id), TRUE).expense
        /\ expenses' = expenses
      ]_vars

\* an update without fields answered with a record that an earlier update
\* had changed
C17_Witness ==
    /\ resp.op = "update" /\ resp.status = StatusOK /\ resp.data # Nil
    /\ resp.arg.req = NoUpdate
    /\ Deref(resp.data).description = Bus
    /\ expenses[IdOf(resp.arg.id)].description = Bus

\* a request that carries a field Create would refuse: an empty or too long
\* description or category, or an amount that is not greater than 0
InvalidUpdate(req) ==
    \/ /\ req.description # Nil
       /\ \/ Deref(req.description) = EmptyString
          \/ Len(Deref(req.description)) > MaxDescriptionLen
    \/ /\ req.category # Nil
       /\ \/ Deref(req.category) = EmptyString
          \/ Len(Deref(req.category)) > MaxCategoryLen
    \/ /\ req.amount # Nil
       /\ Deref(req.amount) <= 0

\* C18: an update whose request carries an empty description, an empty
\* category, a description of more than 500 or a category of more than 100
\* characters, or an amount that is not greater than 0, is answered with
\* status 400 and leaves the table as it was; every stored expense has a
\* non-empty description and a non-empty category.
C18_UpdateValidated ==
    /\ [](\A id \in DOMAIN expenses :
            /\ expenses[id].description # EmptyString
            /\ expenses[id].category # EmptyString)
    /\ [][(resp'.op = "update" /\ ParseInt(resp'.arg.id).ok
             /\ InvalidUpdate(resp'.arg.req)) =>
            /\ resp'.status = StatusBadRequest
            /\ resp'.success = FALSE
            /\ expenses' = expenses
         ]_vars

\* an update of a stored expense that carried an empty description, refused
C18_Witness ==
    /\ resp.op = "update" /\ resp.status = StatusBadRequest
    /\ resp.arg.req = [NoUpdate EXCEPT !.description = Some(EmptyString)]
    /\ ParseInt(resp.arg.id).ok
    /\ IdOf(resp.arg.id) \in DOMAIN expenses

\* C19: after any update, a GetByID of any stored expense returns the
\* identifier under which it was created and the creation timestamp that its
\* create returned.
C19_IdAndCreatedAtKept ==
    (resp.op = "update" /\ resp.status = StatusOK) =>
        \A id \in DOMAIN expenses :
            LET got == RepoGetByID(expenses, id, TRUE)
            IN  /\ got.err = ErrNone /\ got.expense # Nil
                /\ Deref(got.expense).id = id
                /\ id \in DOMAIN stamps
                /\ Deref(got.expense).created_at = stamps[id]

----------------------------------------------------------------------------
(* Identifiers in the path *)

\* a response to GET, PUT or DELETE /api/expenses/:id
OnRecord(r) == r.op \in {"get", "update", "delete"}

\* C20: GET, PUT and DELETE on /api/expenses/:id answer a non-numeric id
\* with 400 and the identifier error; they answer a numeric id under which
\* nothing is stored with 404 and success false - PUT when its body passes
\* binding, for a PUT whose body fails binding is answered 400 whether or not
\* the record is stored; in each of these cases the table is unchanged.
C20_BadIdAndMissingRecord ==
    [][OnRecord(resp') =>
        /\ ~ParseInt(resp'.arg.id).ok =>
              /\ resp'.status = StatusBadRequest /\ resp'.err = ErrBadId
              /\ resp'.success = FALSE
              /\ expenses' = expenses
        /\ (/\ ParseInt(resp'.arg.id).ok
            /\ IdOf(resp'.arg.id) \notin DOMAIN expenses
            /\ resp'.op = "update" => BindUpdate(resp'.arg.req)) =>
              /\ resp'.status = StatusNotFound
              /\ resp'.success = FALSE
              /\ expenses' = expenses
        /\ (/\ ParseInt(resp'.arg.id).ok
            /\ resp'.op = "update"
            /\ ~BindUpdate(resp'.arg.req)) =>
              /\ resp'.status = StatusBadRequest
              /\ resp'.success = FALSE
              /\ expenses' = expenses
      ]_vars

\* a PUT with a body that passes binding, on a numeric id that is not stored
\* while another one is, answered 404
C20_Witness ==
    /\ resp.op = "update" /\ resp.status = StatusNotFound
    /\ resp.arg.req = [NoUpdate EXCEPT !.description = Some(Bus)]
    /\ ParseInt(resp.arg.id).ok
    /\ IdOf(resp.arg.id) \notin DOMAIN expenses
    /\ DOMAIN expenses # {}

\* C20 as first stated: a non-numeric id is answered 400, and every request
\* on a numeric id under which nothing is stored is answered 404 with
\* success false; the table is unchanged in both cases.
C20_MissingRecordAlways404 ==
    [][OnRecord(resp') =>
        /\ ~ParseInt(resp'.arg.id).ok =>
              /\ resp'.status = StatusBadRequest
              /\ expenses' = expenses
        /\ (ParseInt(resp'.arg.id).ok /\ IdOf(resp'.arg.id) \notin DOMAIN expenses) =>
              /\ resp'.status = StatusNotFound
              /\ resp'.success = FALSE
              /\ expenses' = expenses
      ]_vars

----------------------------------------------------------------------------
(* Requests that overlap. net/http serves every request on a goroutine of *)
(* its own and the repository opens no transaction, so each storage call  *)
(* is one statement of its own and the statements of different requests   *)
(* interleave. An update is two statements (the existence check, then the *)
(* UPDATE); between them the request waits in inflight.                   *)

ConcIdParams == {Itoa(i) : i \in 1..MaxConcRows}

ConcCreates == {BaseCreate}

ConcUpdates ==
    {NoUpdate, [NoUpdate EXCEPT !.description = Some(Bus)],
     [NoUpdate EXCEPT !.amount = Some(2000)]}

\* what SELECT ... WHERE id = $1 has read of the table
Only(rows, id) == [i \in DOMAIN rows \cap {id} |-> rows[i]]

\* the request gets as far as the second storage call: the id parses, the
\* body binds and the existence check finds the record
ReachesUpdate(rows1, idParam, req, up1) ==
    LET id == ParseInt(idParam)
        existing == RepoGetByID(rows1, id.val, up1)
    IN  /\ id.ok
        /\ BindUpdate(req)
        /\ existing.err = ErrNone
        /\ existing.expense # Nil

\* PUT /api/expenses/:id up to and including the existence check
BeginUpdateOf(c, requests) ==
    \E idParam \in ConcIdParams, req \in requests :
        /\ Idle
        /\ inflight[c].op = "none"
        /\ IF ReachesUpdate(expenses, idParam, req, TRUE)
           THEN /\ inflight' = [inflight EXCEPT ![c] =
                       [op |-> "update", id |-> idParam, req |-> req,
                        rows1 |-> Only(expenses, ParseInt(idParam).val)]]
                /\ resp' = resp
           ELSE /\ resp' = HandleUpdateExpense(expenses, idParam, req, TRUE, TRUE).resp
                /\ inflight' = inflight
        /\ UNCHANGED <<expenses, id_seq, now, issued, deleted, stamps>>

BeginUpdate(c) == BeginUpdateOf(c, ConcUpdates)

\* PUT /api/expenses/:id from the UPDATE statement to the response
EndUpdate(c) ==
    LET r   == inflight[c]
        out == HandleUpdateExpenseAt(r.rows1, expenses, r.id, r.req, TRUE, TRUE)
    IN  /\ Idle
        /\ r.op = "update"
        /\ expenses' = out.rows
        /\ resp' = out.resp
        /\ inflight' = [inflight EXCEPT ![c].op = "answered"]
        /\ UNCHANGED <<id_seq, now, issued, deleted, stamps>>

CreateOverlapping == CreateExpenseUpTo(ConcCreates, MaxConcRows)

\* c.JSON has written the response: the request that received it is over
FinishOverlapping ==
    /\ ~Idle
    /\ resp' = NoResponse
    /\ inflight' = [c \in Clients |->
                       IF inflight[c].op = "answered" THEN NoRequest ELSE inflight[c]]
    /\ UNCHANGED <<expenses, id_seq, now, issued, deleted, stamps>>

NextConc ==
    \/ FinishOverlapping
    \/ CreateOverlapping
    \/ DeleteExpense
    \/ \E c \in Clients : BeginUpdate(c)
    \/ \E c \in Clients : EndUpdate(c)

SpecConc == Init /\ [][NextConc]_vars

----------------------------------------------------------------------------
\* C21: in every interleaving of an update of a record with a delete of the
\* same record, the update is answered either with the updated record or with
\* a not-found error - never with status 200 and success true but no record
\* (a nil expense together with a nil error from the service).
C21_UpdateOrNotFound ==
    (resp.op = "update" /\ resp.status # StatusBadRequest) =>
        \/ resp.err = ErrNone /\ resp.data # Nil
        \/ resp.err = ErrNotFound /\ resp.data = Nil /\ resp.status = StatusNotFound

Fields == {"description", "amount", "category", "date"}

\* the value a request carries for a field, as the column stores it
Carried(req, f) ==
    CASE f = "description" -> Deref(req.description)
      [] f = "amount" -> NumericRound(Deref(req.amount))
      [] f = "category" -> Deref(req.category)
      [] f = "date" -> ParseDate(Deref(req.date)).date

\* the step is the UPDATE statement of client c's request
Writes(c) == inflight[c].op = "update" /\ inflight'[c].op = "answered"

\* C22: when updates of the same stored record overlap and carry different
\* fields, no update is lost, whatever the order of their existence checks
\* and writes: a field of a stored record changes only in the write of an
\* update that carries that field, and it changes to the carried value; the
\* write of an update sets every field it carries and leaves every other field
\* as the table holds it at the time of the write, not as its existence check
\* has read it.
C22_NoLostUpdate ==
    [][ /\ \A id \in DOMAIN expenses \cap DOMAIN expenses' :
            /\ expenses'[id].created_at = expenses[id].created_at
            /\ \A f \in Fields :
                  expenses'[id][f] # expenses[id][f] =>
                      \E c \in Clients :
                          /\ Writes(c)
                          /\ IdOf(inflight[c].id) = id
                          /\ inflight[c].req[f] # Nil
                          /\ expenses'[id][f] = Carried(inflight[c].req, f)
        /\ \A c \in Clients :
              (Writes(c) /\ IdOf(inflight[c].id) \in DOMAIN expenses) =>
                  LET id  == IdOf(inflight[c].id)
                      req == inflight[c].req
                  IN  /\ id \in DOMAIN expenses'
                      /\ resp'.status = StatusOK /\ resp'.data # Nil
                      /\ \A f \in Fields :
                            /\ req[f] # Nil => expenses'[id][f] = Carried(req, f)
                            /\ req[f] = Nil => expenses'[id][f] = expenses[id][f]
                            /\ Deref(resp'.data)[f] = expenses'[id][f]
      ]_vars

\* an update that carried only an amount has just written: its existence
\* check had read the description "tea", an overlapping update has set "bus"
\* since, and the record holds both "bus" and the new amount
C22_Witness ==
    \E c \in Clients :
        LET r  == inflight[c]
            id == IdOf(r.id)
        IN  /\ r.op = "answered"
            /\ resp.op = "update" /\ resp.status = StatusOK /\ resp.data # Nil
            /\ r.req = [NoUpdate EXCEPT !.amount = Some(2000)]
            /\ r.rows1[id].description = Tea
            /\ id \in DOMAIN expenses
            /\ expenses[id].description = Bus
            /\ expenses[id].amount = 2000
            /\ Deref(resp.data).description = Bus

----------------------------------------------------------------------------
(* GET /api/stats while other requests write. GetStats is two statements   *)
(* (the aggregate query, then the grouped query) with no transaction       *)
(* around them; between them the request waits in inflight with what the   *)
(* aggregate query has read.                                               *)

StatsUpdates ==
    {[NoUpdate EXCEPT !.amount = Some(2000)], [NoUpdate EXCEPT !.category = Some(Fun)]}

\* GET /api/stats up to and including the aggregate query
BeginStats(c) ==
    /\ Idle
    /\ inflight[c].op = "none"
    /\ inflight' = [inflight EXCEPT ![c] =
           [op |-> "stats", id |-> EmptyString, req |-> NoUpdate, rows1 |-> expenses]]
    /\ UNCHANGED <<expenses, id_seq, now, resp, issued, deleted, stamps>>

\* GET /api/stats from the grouped query to the response
EndStats(c) ==
    /\ Idle
    /\ inflight[c].op = "stats"
    /\ resp' = HandleGetStatsAt(inflight[c].rows1, expenses, TRUE, TRUE)
    /\ inflight' = [inflight EXCEPT ![c].op = "answered"]
    /\ UNCHANGED <<expenses, id_seq, now, issued, deleted, stamps>>

NextStats ==
    \/ FinishOverlapping
    \/ CreateOverlapping
    \/ DeleteExpense
    \/ \E c \in Clients : BeginUpdateOf(c, StatsUpdates)
    \/ \E c \in Clients : EndUpdate(c)
    \/ \E c \in Clients : BeginStats(c)
    \/ \E c \in Clients : EndStats(c)

SpecStats == Init /\ [][NextStats]_vars

RECURSIVE SumOver(_, _)
SumOver(f, keys) ==
    IF keys = {} THEN 0
    ELSE LET k == CHOOSE k \in keys : TRUE
         IN  f[k] + SumOver(f, keys \ {k})

\* C23: in every statistics result the per-category totals add up to the
\* total amount, and the result describes one state of the table (no record
\* counted without a category total and no category total without a record),
\* also when creates, updates or deletes run between the aggregate query and
\* the grouped query of the call.
C23_StatsOfOneState ==
    (resp.op = "stats" /\ resp.status = StatusOK) =>
        LET stats == Deref(resp.data)
        IN  /\ SumOver(stats.by_category, DOMAIN stats.by_category) = stats.total_amount
            /\ (stats.expense_count = 0) <=> (DOMAIN stats.by_category = {})

----------------------------------------------------------------------------
\* the request carries a date that does not parse as YYYY-MM-DD
BadDate(req) == req.date # Nil /\ ~ParseDate(Deref(req.date)).ok

\* C24: an update of a stored record whose request carries a date that is
\* present but does not parse as YYYY-MM-DD fails and leaves every field of
\* the record (and the rest of the table) as it was, also when the same
\* request carries a valid description, amount or category: nothing of the
\* request is applied.
C24_BadDateNothingApplied ==
    [][(resp'.op = "update" /\ ParseInt(resp'.arg.id).ok
          /\ IdOf(resp'.arg.id) \in DOMAIN expenses
          /\ BadDate(resp'.arg.req)) =>
        /\ resp'.success = FALSE
        /\ resp'.err # ErrNone
        /\ resp'.status \in {StatusBadRequest, StatusNotFound, StatusInternalServerError}
        /\ resp'.data = Nil
        /\ expenses' = expenses
      ]_vars

\* an update of a stored expense that carried the date "2024-02-30" together
\* with a new description, refused: the description is still the one stored
C24_Witness ==
    /\ resp.op = "update"
    /\ resp.arg.req = [NoUpdate EXCEPT !.date = Some(Feb30), !.description = Some(Bus)]
    /\ ParseInt(resp.arg.id).ok
    /\ IdOf(resp.arg.id) \in DOMAIN expenses
    /\ resp.success = FALSE
    /\ resp.err = ErrInvalidDate
    /\ expenses[IdOf(resp.arg.id)].description = Tea

====
